---------------------------- MODULE Spec2Model ----------------------------
(***************************************************************************)
(* Model of the CoinGecko edge proxy (src/api/coingecko.js): the query     *)
(* validators, the single-slot in-memory cache and the handler's           *)
(* cache / upstream / fallback decision tree; and of the provider adapters *)
(* of the market service (src/unnamed/part_000).                           *)
(*                                                                         *)
(* JavaScript strings that the code inspects character by character (the   *)
(* query parameters, the validated values, the cache key) are sequences of *)
(* one-character strings.  Opaque strings (response bodies, header values) *)
(* are TLA+ strings.                                                       *)
(***************************************************************************)
EXTENDS Integers, Sequences, FiniteSets, TLC

(***************************************************************************)
(* Program constants                                                       *)
(***************************************************************************)
ALLOWED_CURRENCIES ==
    << <<"u","s","d">>, <<"e","u","r">>, <<"g","b","p">>, <<"j","p","y">>,
       <<"c","n","y">>, <<"b","t","c">>, <<"e","t","h">> >>

MAX_COIN_IDS == 20

MAX_ID_LENGTH == 50

CACHE_TTL == 120000

UPSTREAM_TIMEOUT_MS == 10000

DEFAULT_COIN_IDS ==
    << "b","i","t","c","o","i","n", ",",
       "e","t","h","e","r","e","u","m", ",",
       "s","o","l","a","n","a" >>

(***************************************************************************)
(* Characters                                                              *)
(***************************************************************************)
UpperChars ==
    << "A","B","C","D","E","F","G","H","I","J","K","L","M",
       "N","O","P","Q","R","S","T","U","V","W","X","Y","Z" >>

LowerChars ==
    << "a","b","c","d","e","f","g","h","i","j","k","l","m",
       "n","o","p","q","r","s","t","u","v","w","x","y","z" >>

DigitChars == << "0","1","2","3","4","5","6","7","8","9" >>

Range(s) == { s[i] : i \in 1..Len(s) }

\* String.prototype.toLowerCase on one character.
lowerChar(c) ==
    IF \E i \in 1..Len(UpperChars) : UpperChars[i] = c
    THEN LowerChars[CHOOSE i \in 1..Len(UpperChars) : UpperChars[i] = c]
    ELSE c

toLowerCase(s) == [ i \in 1..Len(s) |-> lowerChar(s[i]) ]

\* The white space String.prototype.trim removes (the part of it the
\* model's alphabets contain).
WhiteSpace == { " ", "\t" }

RECURSIVE trimStart(_)
trimStart(s) ==
    IF s # <<>> /\ Head(s) \in WhiteSpace THEN trimStart(Tail(s)) ELSE s

RECURSIVE trimEnd(_)
trimEnd(s) ==
    IF s # <<>> /\ s[Len(s)] \in WhiteSpace
    THEN trimEnd(SubSeq(s, 1, Len(s) - 1))
    ELSE s

trim(s) == trimEnd(trimStart(s))

\* String.prototype.split(','): the pieces between the commas, empty
\* pieces included.
RECURSIVE split(_)
split(s) ==
    IF \E i \in 1..Len(s) : s[i] = ","
    THEN LET i == CHOOSE j \in 1..Len(s) :
                     s[j] = "," /\ \A k \in 1..(j - 1) : s[k] # ","
         IN  << SubSeq(s, 1, i - 1) >> \o split(SubSeq(s, i + 1, Len(s)))
    ELSE << s >>

\* Array.prototype.join(',').
RECURSIVE join(_)
join(parts) ==
    IF parts = <<>> THEN <<>>
    ELSE IF Len(parts) = 1 THEN parts[1]
    ELSE parts[1] \o <<",">> \o join(Tail(parts))

\* A slice that forgets the cap.
slice_NoCap(parts, n) == parts

\* Array.prototype.slice(0, n).
slice(parts, n) == SubSeq(parts, 1, IF Len(parts) < n THEN Len(parts) ELSE n)

\* COIN_ID_PATTERN = /^[a-z0-9-]+$/
CoinIdChars == Range(LowerChars) \cup Range(DigitChars) \cup {"-"}

COIN_ID_PATTERN(id) == id # <<>> /\ \A i \in 1..Len(id) : id[i] \in CoinIdChars

(***************************************************************************)
(* Query parameters: URLSearchParams.get returns null for an absent        *)
(* parameter and the (possibly empty) string otherwise.                    *)
(***************************************************************************)
Absent == [present |-> FALSE, value |-> <<>>]

Param(s) == [present |-> TRUE, value |-> s]

\* JavaScript truthiness of a string-or-null: null and '' are falsy.
Falsy(p) == ~p.present \/ p.value = <<>>

(***************************************************************************)
(* The validators                                                          *)
(***************************************************************************)
\* A validator that applies the cap before the filter.
coinIdList_CapFirst(idsParam) ==
    LET pieces   == split(idsParam.value)
        cleaned  == [ i \in 1..Len(pieces) |-> toLowerCase(trim(pieces[i])) ]
        keep(id) == COIN_ID_PATTERN(id) /\ Len(id) <= MAX_ID_LENGTH
    IN  SelectSeq(slice(cleaned, MAX_COIN_IDS), keep)

\* The ids kept by validateCoinIds before the join (lines 14-17).
coinIdList(idsParam) ==
    LET pieces   == split(idsParam.value)
        cleaned  == [ i \in 1..Len(pieces) |-> toLowerCase(trim(pieces[i])) ]
        keep(id) == COIN_ID_PATTERN(id) /\ Len(id) <= MAX_ID_LENGTH
    IN  slice(SelectSeq(cleaned, keep), MAX_COIN_IDS)

validateCoinIds(idsParam) ==
    IF Falsy(idsParam) THEN DEFAULT_COIN_IDS
    ELSE LET ids == coinIdList(idsParam)
         IN  IF Len(ids) > 0 THEN join(ids) ELSE DEFAULT_COIN_IDS

validateCurrency(val) ==
    LET currency == toLowerCase(IF Falsy(val) THEN <<"u","s","d">> ELSE val.value)
    IN  IF currency \in Range(ALLOWED_CURRENCIES) THEN currency ELSE <<"u","s","d">>

TrueStr == <<"t","r","u","e">>

FalseStr == <<"f","a","l","s","e">>

validateBoolean(val, defaultVal) ==
    IF val.present /\ (val.value = TrueStr \/ val.value = FalseStr)
    THEN val.value
    ELSE defaultVal

\* The handler's reading of the three parameters (lines 35-37).
validateQuery(raw) ==
    [ ids               |-> validateCoinIds(raw.ids),
      vsCurrencies      |-> validateCurrency(raw.vs_currencies),
      include24hrChange |-> validateBoolean(raw.include_24hr_change, TrueStr) ]

\* A cache key that leaves the flag out.
cacheKeyOf_NoFlag(q) == q.ids \o <<":">> \o q.vsCurrencies

\* cacheKey = `${ids}:${vsCurrencies}:${include24hrChange}` (line 40).
cacheKeyOf(q) == q.ids \o <<":">> \o q.vsCurrencies \o <<":">> \o q.include24hrChange

\* geckoUrl (line 54): the literal parts of the template and the three
\* interpolated values, in order.
geckoUrlOf(q) ==
    << "https://api.coingecko.com/api/v3/simple/price?ids=", q.ids,
       "&vs_currencies=", q.vsCurrencies,
       "&include_24hr_change=", q.include24hrChange >>


(***************************************************************************)
(* Bounds of the model                                                     *)
(***************************************************************************)
\* Concurrent executions of the handler in one process.
NumReqs == 2

\* The clock readings the model takes: the first MaxInstants of
\* 0, 1, CACHE_TTL - 1, CACHE_TTL, CACHE_TTL + 1, 2 * CACHE_TTL - 1, ...
MaxInstants == 4

Reqs == 1..NumReqs

Instants ==
    { ((i + 1) \div 3) * CACHE_TTL + ((i + 1) % 3) - 1 : i \in 0..(MaxInstants - 1) }

(***************************************************************************)
(* The upstream, as the handler sees it                                    *)
(***************************************************************************)
\* Status codes the upstream answers with: success, rate limit, server error.
Statuses == { 200, 429, 503 }

\* A success test that takes every status for a success.
IsOk_Always(status) == TRUE

\* Response.ok
IsOk(status) == status >= 200 /\ status <= 299

\* Bodies response.text() resolves to; the empty body is one of them.
Bodies == { "", "{\"bitcoin\":{\"usd\":1}}", "{\"status\":{\"error_code\":2}}" }

\* The query strings of the requests the model sends.
RawQueries ==
    { [ ids |-> Absent, vs_currencies |-> Absent, include_24hr_change |-> Absent ],
      [ ids                 |-> Param(<<" ","B","i","t","c","o","i","n",","," ","&">>),
        vs_currencies       |-> Param(<<"E","U","R">>),
        include_24hr_change |-> Param(FalseStr) ] }

\* What lines 35-37 make of each of them.
validated == [ raw \in RawQueries |-> validateQuery(raw) ]

(***************************************************************************)
(* State                                                                   *)
(***************************************************************************)
VARIABLES
    cache,      \* the module-level cache object (line 8)
    now,        \* Date.now()
    pc,         \* where each execution of the handler stands
    query,      \* its validated ids, vsCurrencies and include24hrChange
    response,   \* the status of the upstream Response it holds
    fetches,    \* how many times it called fetch
    ret,        \* what the latest handler step returned to its caller, with
                \* the execution's record (NoReturn if it returned nothing)
    vin,        \* a query string handed to the validators
    vout,       \* what lines 35-40 and 54 make of it
    acall,      \* the provider adapter call in flight, if any
    aret        \* what the latest adapter call handed to its caller

hvars == << cache, now, pc, query, response, fetches, ret >>

vvars == << vin, vout >>

avars == << acall, aret >>

vars == << hvars, vvars, avars >>

\* cache.data before the first write is null, cache.key is undefined.
NullData == "<null>"

Undefined == << "<undefined>" >>

NoQuery == [ ids |-> <<>>, vsCurrencies |-> <<>>, include24hrChange |-> <<>> ]

NoStatus == 0

NoUpstream == [ status |-> NoStatus, body |-> NullData ]

NoError == ""

NoResponse == [ status |-> NoStatus, body |-> NullData, xcache |-> "" ]

NoReturn ==
    [ query |-> NoQuery, upstream |-> NoUpstream, error |-> NoError,
      out |-> NoResponse, fetches |-> 0 ]

NoRaw == [ ids |-> Absent, vs_currencies |-> Absent, include_24hr_change |-> Absent ]

NoOutput == [ query |-> NoQuery, cacheKey |-> Undefined, geckoUrl |-> <<>> ]

\* The second argument of the handler's fetch (lines 56-58): an Accept
\* header and no abort signal.
NoSignal == -1

fetchOptions == [ accept |-> "application/json", signal |-> NoSignal ]

\* JavaScript truthiness of cache.data: null and '' are falsy.
Truthy(data) == data # NullData /\ data # ""

\* A cache test that takes an entry stored under any key.
cacheHas_AnyKey(cacheKey) == Truthy(cache.data)

\* cache.data && cache.key === cacheKey (lines 41, 62 and 92).
cacheHas(cacheKey) == Truthy(cache.data) /\ cache.key = cacheKey

\* ... && Date.now() - cache.timestamp < CACHE_TTL (line 41).
cacheFresh(cacheKey) == cacheHas(cacheKey) /\ now - cache.timestamp < CACHE_TTL

\* The bodies and status codes of the responses the handler builds.
ERROR_BODY == "{\"error\":\"Failed to fetch data\"}"

hitResponse == [ status |-> 200, body |-> cache.data, xcache |-> "HIT" ]

\* A 429 fallback that hands the upstream's status on.
staleResponse_429 == [ status |-> 429, body |-> cache.data, xcache |-> "STALE" ]

staleResponse == [ status |-> 200, body |-> cache.data, xcache |-> "STALE" ]

\* A pass-through that swallows the upstream's status.
missResponse_Status200(status, data) ==
    [ status |-> 200, body |-> data, xcache |-> "MISS" ]

\* A pass-through that replaces an upstream error by the generic one.
missResponse_Generic(status, data) ==
    IF IsOk(status)
    THEN [ status |-> status, body |-> data, xcache |-> "MISS" ]
    ELSE [ status |-> 500, body |-> ERROR_BODY, xcache |-> "" ]

missResponse(status, data) == [ status |-> status, body |-> data, xcache |-> "MISS" ]

fallbackResponse == [ status |-> 200, body |-> cache.data, xcache |-> "ERROR-FALLBACK" ]

\* The 500 response carries no X-Cache header.
errorResponse == [ status |-> 500, body |-> ERROR_BODY, xcache |-> "" ]

\* A catch block that forgets to compare the key.
catchResponse_AnyKey(cacheKey) ==
    IF Truthy(cache.data) THEN fallbackResponse ELSE errorResponse

\* The catch block (lines 90-107).
catchResponse(cacheKey) ==
    IF cacheHas(cacheKey) THEN fallbackResponse ELSE errorResponse

(***************************************************************************)
(* JavaScript values the provider adapters compute with.  A number is a    *)
(* fraction num/den in lowest terms with den > 0; the other values carry   *)
(* num = 0 and den = 1.                                                    *)
(***************************************************************************)
Num(n) == [ t |-> "number", num |-> n, den |-> 1 ]

JsUndefined == [ t |-> "undefined", num |-> 0, den |-> 1 ]

JsNull == [ t |-> "null", num |-> 0, den |-> 1 ]

NaN == [ t |-> "NaN", num |-> 0, den |-> 1 ]

Infinity == [ t |-> "Infinity", num |-> 0, den |-> 1 ]

MinusInfinity == [ t |-> "-Infinity", num |-> 0, den |-> 1 ]

\* What an adapter hands to its caller: null, an object with the fields
\* symbol, price, change (changePercent) and sparkline, or an array; thrown
\* tells that the call ended with an exception instead.
AdapterValue(kind, symbol, price, change, list) ==
    [ kind |-> kind, symbol |-> symbol, price |-> price, change |-> change,
      list |-> list, thrown |-> FALSE ]

NullResult == AdapterValue("null", "", JsUndefined, JsUndefined, <<>>)

ArrayResult(items) == AdapterValue("array", "", JsUndefined, JsUndefined, items)

\* A parsed JSON body: null, an array of items, or an object with the fields
\* the adapters read.  depth tells how much of chart.result[0].meta the
\* object has: "none" (no chart), "chart" (no result), "result" (an empty
\* result array), "element" (an element without meta) or "meta".
Json(shape, c, h, l, dp, depth, price, cpc, pcl, hasCloses, closes, items) ==
    [ shape |-> shape, c |-> c, h |-> h, l |-> l, dp |-> dp, depth |-> depth,
      regularMarketPrice |-> price, chartPreviousClose |-> cpc,
      previousClose |-> pcl, hasCloses |-> hasCloses, closes |-> closes,
      items |-> items ]

NoJson ==
    Json("none", JsUndefined, JsUndefined, JsUndefined, JsUndefined, "none",
         JsUndefined, JsUndefined, JsUndefined, FALSE, <<>>, <<>>)

NoCall ==
    [ fn |-> "", symbol |-> "", pc |-> "idle", status |-> NoStatus, signal |-> NoSignal ]

NoAdapterReturn ==
    [ fn |-> "", symbol |-> "", outcome |-> "", status |-> NoStatus,
      signal |-> NoSignal, data |-> NoJson, value |-> NullResult ]

InitAdapters ==
    /\ acall = NoCall
    /\ aret = NoAdapterReturn

InitHandler ==
    /\ cache = [ data |-> NullData, key |-> Undefined, timestamp |-> 0 ]
    /\ now = 0
    /\ pc = [ p \in Reqs |-> "idle" ]
    /\ query = [ p \in Reqs |-> NoQuery ]
    /\ response = [ p \in Reqs |-> NoStatus ]
    /\ fetches = [ p \in Reqs |-> 0 ]
    /\ ret = NoReturn

Init ==
    /\ InitHandler
    /\ vin = NoRaw
    /\ vout = NoOutput
    /\ InitAdapters

(***************************************************************************)
(* The handler, one action per stretch of code between two awaits.  An     *)
(* execution that returns hands its Response to the runtime and is over.   *)
(***************************************************************************)
\* Execution p returns Response r: its locals go away.
Return(p, q, upstream, err, r, n) ==
    /\ ret' = [ query |-> q, upstream |-> upstream, error |-> err,
                out |-> r, fetches |-> n ]
    /\ pc' = [pc EXCEPT ![p] = "idle"]
    /\ query' = [query EXCEPT ![p] = NoQuery]
    /\ response' = [response EXCEPT ![p] = NoStatus]
    /\ fetches' = [fetches EXCEPT ![p] = 0]

\* A request arrives: lines 33-59, up to the await of fetch.
Start(p, raw) ==
    /\ pc[p] = "idle"
    /\ LET q == validated[raw]
       IN  IF cacheFresh(cacheKeyOf(q))
           THEN Return(p, q, NoUpstream, NoError, hitResponse, fetches[p])
           ELSE /\ query' = [query EXCEPT ![p] = q]
                /\ pc' = [pc EXCEPT ![p] = "fetch"]
                /\ fetches' = [fetches EXCEPT ![p] = fetches[p] + 1]
                /\ ret' = NoReturn
                /\ UNCHANGED response
    /\ UNCHANGED << cache, now, vvars, avars >>

\* fetch resolves with a Response: lines 61-74, up to the await of text().
FetchResolve(p, status) ==
    /\ pc[p] = "fetch"
    /\ IF status = 429 /\ cacheHas(cacheKeyOf(query[p]))
       THEN Return(p, query[p], [ status |-> status, body |-> NullData ], NoError,
                   staleResponse, fetches[p])
       ELSE /\ response' = [response EXCEPT ![p] = status]
            /\ pc' = [pc EXCEPT ![p] = "text"]
            /\ ret' = NoReturn
            /\ UNCHANGED << query, fetches >>
    /\ UNCHANGED << cache, now, vvars, avars >>

\* A handler that calls fetch a second time after a network error.
FetchReject_Retry(p) ==
    /\ pc[p] = "fetch"
    /\ IF fetches[p] < 2
       THEN /\ fetches' = [fetches EXCEPT ![p] = fetches[p] + 1]
            /\ ret' = NoReturn
            /\ UNCHANGED << pc, query, response >>
       ELSE Return(p, query[p], NoUpstream, "fetch failed",
                   catchResponse(cacheKeyOf(query[p])), fetches[p])
    /\ UNCHANGED << cache, now, vvars, avars >>

\* fetch rejects (a network error): the catch block.
FetchReject(p) ==
    /\ pc[p] = "fetch"
    /\ Return(p, query[p], NoUpstream, "fetch failed",
              catchResponse(cacheKeyOf(query[p])), fetches[p])
    /\ UNCHANGED << cache, now, vvars, avars >>

\* A cache write that takes the key of whichever request arrived last (as
\* if cacheKey were shared by the executions instead of local to each).
TextResolve_SharedKey(p, data) ==
    /\ pc[p] = "text"
    /\ cache' = IF IsOk(response[p])
                THEN [ data      |-> data,
                       key       |-> cacheKeyOf(query[CHOOSE r \in Reqs :
                                         /\ pc[r] # "idle"
                                         /\ \A o \in Reqs : pc[o] # "idle" => o <= r]),
                       timestamp |-> now ]
                ELSE cache
    /\ Return(p, query[p], [ status |-> response[p], body |-> data ], NoError,
              missResponse(response[p], data), fetches[p])
    /\ UNCHANGED << now, vvars, avars >>

\* A cache write that keeps an entry held for another key.
TextResolve_KeepOther(p, data) ==
    /\ pc[p] = "text"
    /\ cache' = IF IsOk(response[p])
                   /\ (cache.data = NullData \/ cache.key = cacheKeyOf(query[p]))
                THEN [ data |-> data, key |-> cacheKeyOf(query[p]), timestamp |-> now ]
                ELSE cache
    /\ Return(p, query[p], [ status |-> response[p], body |-> data ], NoError,
              missResponse(response[p], data), fetches[p])
    /\ UNCHANGED << now, vvars, avars >>

\* response.text() resolves: lines 74-89.
TextResolve(p, data) ==
    /\ pc[p] = "text"
    /\ cache' = IF IsOk(response[p])
                THEN [ data |-> data, key |-> cacheKeyOf(query[p]), timestamp |-> now ]
                ELSE cache
    /\ Return(p, query[p], [ status |-> response[p], body |-> data ], NoError,
              missResponse(response[p], data), fetches[p])
    /\ UNCHANGED << now, vvars, avars >>

\* response.text() rejects (the body cannot be read): the catch block.
TextReject(p) ==
    /\ pc[p] = "text"
    /\ Return(p, query[p], [ status |-> response[p], body |-> NullData ],
              "body unreadable", catchResponse(cacheKeyOf(query[p])), fetches[p])
    /\ UNCHANGED << cache, now, vvars, avars >>

\* Time passes.
Tick ==
    /\ \E t \in Instants : t > now /\ now' = t
    /\ UNCHANGED << cache, pc, query, response, fetches, ret, vvars, avars >>

Next ==
    \/ \E p \in Reqs, raw \in RawQueries : Start(p, raw)
    \/ \E p \in Reqs, status \in Statuses : FetchResolve(p, status)
    \/ \E p \in Reqs : FetchReject(p)
    \/ \E p \in Reqs, data \in Bodies : TextResolve(p, data)
    \/ \E p \in Reqs : TextReject(p)
    \/ Tick

Spec == Init /\ [][Next]_vars

(***************************************************************************)
(* The validators on their own: lines 35-40 and 54 applied to one query    *)
(* string drawn from the sets below.                                       *)
(***************************************************************************)
\* Longest raw parameter enumerated exhaustively.
MaxRawLen == 3

\* Pieces beyond MAX_COIN_IDS, and characters beyond MAX_ID_LENGTH, in the
\* oversized parameters.
MaxExtra == 2

Strs(alphabet, n) == UNION { [ 1..k -> alphabet ] : k \in 0..n }

RECURSIVE repeat(_, _)
repeat(s, n) == IF n = 0 THEN <<>> ELSE s \o repeat(s, n - 1)

upperChar(c) ==
    IF \E i \in 1..Len(LowerChars) : LowerChars[i] = c
    THEN UpperChars[CHOOSE i \in 1..Len(LowerChars) : LowerChars[i] = c]
    ELSE c

toUpperCase(s) == [ i \in 1..Len(s) |-> upperChar(s[i]) ]

capitalize(s) == [ i \in 1..Len(s) |-> IF i = 1 THEN upperChar(s[i]) ELSE s[i] ]

\* n ids "a", "a", ... joined by commas.
manyIds(n) == <<"a">> \o repeat(<<",", "a">>, n - 1)

\* The same with an invalid piece in front of every id.
manyMixedIds(n) == <<"&", ",", "A">> \o repeat(<<",", "&", ",", " ", "a">>, n - 1)

RawIds ==
    {Absent}
    \cup { Param(s) : s \in Strs({"a", "B", "-", ",", " ", "&", ":"}, MaxRawLen) }
    \cup { Param(<<"a", c, "b">>) : c \in {"=", "/", "\t", "7", "_", "."} }
    \cup { Param(manyIds(n)) : n \in (MAX_COIN_IDS - 1)..(MAX_COIN_IDS + MaxExtra) }
    \cup { Param(manyMixedIds(n)) : n \in (MAX_COIN_IDS - 1)..(MAX_COIN_IDS + MaxExtra) }
    \cup { Param(repeat(<<"a">>, n) \o <<",", "b">>) :
               n \in (MAX_ID_LENGTH - 1)..(MAX_ID_LENGTH + MaxExtra) }
    \cup { Param(repeat(<<"Z">>, n)) :
               n \in (MAX_ID_LENGTH - 1)..(MAX_ID_LENGTH + MaxExtra) }

RawCurrencies ==
    {Absent}
    \cup { Param(c) : c \in Range(ALLOWED_CURRENCIES) }
    \cup { Param(toUpperCase(c)) : c \in Range(ALLOWED_CURRENCIES) }
    \cup { Param(capitalize(c)) : c \in Range(ALLOWED_CURRENCIES) }
    \cup { Param(c \o <<"&", "x", "=", "1">>) : c \in Range(ALLOWED_CURRENCIES) }
    \cup { Param(s) : s \in Strs({"u", "S", "d", " ", "&"}, MaxRawLen) }

RawBooleans ==
    { Absent, Param(<<>>), Param(TrueStr), Param(FalseStr),
      Param(toUpperCase(TrueStr)), Param(capitalize(FalseStr)),
      Param(<<"1">>), Param(<<"0">>), Param(<<" ">> \o TrueStr),
      Param(FalseStr \o <<"&", "x", "=", "/", ":">>) }

\* Every ids parameter with a few currencies and flags, and every currency
\* and flag with a few ids parameters.
ProbeQueries ==
    { [ ids |-> i, vs_currencies |-> c, include_24hr_change |-> b ] :
        i \in RawIds,
        c \in { Absent, Param(<<"E","U","R">>), Param(<<"&">>) },
        b \in { Absent, Param(FalseStr) } }
    \cup
    { [ ids |-> i, vs_currencies |-> c, include_24hr_change |-> b ] :
        i \in { Absent, Param(<<"B","T","C",","," ","e","t","h"," ">>) },
        c \in RawCurrencies,
        b \in RawBooleans }

InitValidate ==
    /\ InitHandler
    /\ vin \in ProbeQueries
    /\ vout = NoOutput
    /\ InitAdapters

\* Lines 35-40 and 54: the validated query, its cache key and upstream URL.
Validate ==
    /\ vout = NoOutput
    /\ LET q == validateQuery(vin)
       IN  vout' = [ query |-> q, cacheKey |-> cacheKeyOf(q), geckoUrl |-> geckoUrlOf(q) ]
    /\ UNCHANGED << hvars, vin, avars >>

NextValidate == Validate

SpecValidate == InitValidate /\ [][NextValidate]_vars

(***************************************************************************)
(* Claims                                                                  *)
(***************************************************************************)
IdentifierAlphabet ==
    { "a","b","c","d","e","f","g","h","i","j","k","l","m","n","o","p","q","r",
      "s","t","u","v","w","x","y","z","0","1","2","3","4","5","6","7","8","9","-" }

CurrencyAllowList ==
    { <<"u","s","d">>, <<"e","u","r">>, <<"g","b","p">>, <<"j","p","y">>,
      <<"c","n","y">>, <<"b","t","c">>, <<"e","t","h">> }

CommasOf(s) == { i \in 1..Len(s) : s[i] = "," }

\* s is a comma-joined list of lo..hi identifiers over the identifier
\* alphabet, each of 1..maxLen characters.
IsIdList(s, lo, hi, maxLen) ==
    LET cuts == {0} \cup CommasOf(s) \cup {Len(s) + 1}
    IN  /\ \A i \in 1..Len(s) : s[i] \in IdentifierAlphabet \cup {","}
        /\ Cardinality(CommasOf(s)) + 1 \in lo..hi
        /\ \A a \in cuts, b \in cuts :
               (a < b /\ ~\E c \in cuts : a < c /\ c < b)
                   => (b - a - 1 >= 1 /\ b - a - 1 <= maxLen)

\* C1: whatever the raw ids and vs_currencies parameters are, validateCoinIds
\* returns a comma-joined list of 1 to 20 identifiers, each matching
\* ^[a-z0-9-]+$ and at most 50 characters long, validateCurrency returns a
\* member of the 7-entry allow-list, and the values interpolated into the
\* upstream URL are these validated values (and a flag that is 'true' or
\* 'false'), so no other caller-supplied character reaches the URL.
C1_ValidatedOutputs ==
    vout # NoOutput =>
        /\ IsIdList(vout.query.ids, 1, 20, 50)
        /\ vout.query.vsCurrencies \in CurrencyAllowList
        /\ Cardinality(CurrencyAllowList) = 7
        /\ Len(vout.geckoUrl) = 6
        /\ vout.geckoUrl[1] = "https://api.coingecko.com/api/v3/simple/price?ids="
        /\ IsIdList(vout.geckoUrl[2], 1, 20, 50)
        /\ vout.geckoUrl[3] = "&vs_currencies="
        /\ vout.geckoUrl[4] \in CurrencyAllowList
        /\ vout.geckoUrl[5] = "&include_24hr_change="
        /\ vout.geckoUrl[6] \in { <<"t","r","u","e">>, <<"f","a","l","s","e">> }

\* C1's case: an oversized, mixed-case ids parameter with injection
\* characters was cut down to exactly 20 identifiers, and a currency
\* outside the allow-list was replaced.
C1_Witness ==
    /\ vout # NoOutput
    /\ vin.ids.present
    /\ Cardinality(CommasOf(vin.ids.value)) + 1 > 20
    /\ \E i \in 1..Len(vin.ids.value) : vin.ids.value[i] = "&"
    /\ \E i \in 1..Len(vin.ids.value) : vin.ids.value[i] = "A"
    /\ Cardinality(CommasOf(vout.query.ids)) + 1 = 20
    /\ vin.vs_currencies = Param(<<"&">>)
    /\ vout.query.vsCurrencies = <<"u","s","d">>

(***************************************************************************)
(* Claims about the handler                                                *)
(***************************************************************************)
\* The cache key of execution p.
keyOf(p) == cacheKeyOf(query[p])

\* The cache holds an entry for key k: an entry was written (data is no
\* longer null) and it was written for k.
HoldsEntry(k) == cache.data # NullData /\ cache.key = k

Is2xx(status) == status \in 200..299

\* In this step a request arrives for p, misses and calls the upstream.
CallsUpstream(p) == pc[p] = "idle" /\ pc'[p] = "fetch"

\* In this step a request arrives and is answered at once as a cache HIT.
AnswersHit == now' = now /\ ret'.out.xcache = "HIT"

\* In this step p, which was waiting for the upstream, returns its Response
\* (ret' is then p's record).
Returns(p) == pc[p] \in {"fetch", "text"} /\ pc'[p] = "idle"

\* In this step p's fetch or body read throws.
Throws(p) == Returns(p) /\ ret'.error # NoError

FixedErrorResponse ==
    [ status |-> 500, body |-> "{\"error\":\"Failed to fetch data\"}", xcache |-> "" ]

\* C2: if a first execution missed the cache, the upstream answered 2xx and
\* the body was returned with X-Cache: MISS, then a second request for the
\* same validated query, arriving with no other handler step in between and
\* less than 120 s later, does not call the upstream and is answered 200 with
\* X-Cache: HIT and the same body.  (The first execution returned at
\* cache.timestamp: the step in which it returned wrote the entry, and ret
\* still holds its record, so no handler step was taken since.)
C2_SecondCallHits ==
    [][ ( /\ ret.out.xcache = "MISS"
          /\ Is2xx(ret.out.status)
          /\ now - cache.timestamp < 120000 )
        => ( /\ \A p \in Reqs : ~(CallsUpstream(p) /\ query'[p] = ret.query)
             /\ (AnswersHit /\ ret'.query = ret.query)
                   => ( /\ ret'.out = [ status |-> 200, body |-> ret.out.body,
                                        xcache |-> "HIT" ]
                        /\ ret'.fetches = 0 ) ) ]_vars

\* C3: a request for K that finds an entry written at T for K is answered as
\* a HIT when now - T < 120000 and calls the upstream when now - T >= 120000;
\* a HIT leaves the entry, its timestamp included, as it was.
C3_FreshnessBoundary ==
    [][ /\ \A p \in Reqs :
             (CallsUpstream(p) /\ HoldsEntry(cacheKeyOf(query'[p])))
                 => now - cache.timestamp >= 120000
        /\ AnswersHit
             => ( /\ HoldsEntry(cacheKeyOf(ret'.query))
                  /\ now - cache.timestamp < 120000
                  /\ ret'.fetches = 0
                  /\ cache' = cache ) ]_vars

\* C4: when the upstream answers 429 and the cache holds an entry for the
\* request's key, of any age, the handler returns that entry's payload with
\* status 200 and X-Cache: STALE at once; the 429 never reaches the caller.
C4_RateLimitFallback ==
    [][ \A p \in Reqs :
          ( /\ pc[p] = "fetch"
            /\ \/ pc'[p] = "text" /\ response'[p] = 429
               \/ pc'[p] = "idle" /\ ret'.upstream.status = 429
            /\ HoldsEntry(keyOf(p)) )
          => ( /\ Returns(p)
               /\ ret'.out = [ status |-> 200, body |-> cache.data, xcache |-> "STALE" ] ) ]_vars

\* C5: when the upstream call throws (fetch or the body read) and the cache
\* holds no entry for the request's key, the handler returns status 500 with
\* the fixed body and no X-Cache marker, and leaves the cache as it was.
C5_HardFailure ==
    [][ \A p \in Reqs :
          (Throws(p) /\ ~HoldsEntry(keyOf(p)))
          => ( /\ ret'.query = query[p]
               /\ ret'.out = FixedErrorResponse
               /\ cache' = cache ) ]_vars

\* C5's case: the body read of an execution threw while the cache holds a
\* non-empty entry for another key, and the fixed 500 response was returned.
C5_Witness ==
    /\ ret.error = "body unreadable"
    /\ ret.out = FixedErrorResponse
    /\ cache.data \notin {NullData, ""}
    /\ ~HoldsEntry(cacheKeyOf(ret.query))

\* C6: when the upstream call throws and the cache holds an entry for the
\* request's key, of any age, the handler returns that entry's payload with
\* status 200 and X-Cache: ERROR-FALLBACK.
C6_ErrorFallback ==
    [][ \A p \in Reqs :
          (Throws(p) /\ HoldsEntry(keyOf(p)))
          => ret'.out = [ status |-> 200, body |-> cache.data,
                          xcache |-> "ERROR-FALLBACK" ] ]_vars

C9_Original ==
    (ret # NoReturn /\ ret.upstream.status # NoStatus /\ ret.out # FixedErrorResponse)
        => ret.out.status = ret.upstream.status

\* C9 as amended: a response marked MISS carries the upstream's status
\* unchanged; a response marked HIT, STALE or ERROR-FALLBACK carries the fixed
\* status 200 (STALE while the upstream returned 429); a hard failure carries
\* the fixed status 500.
C9_StatusByMarker ==
    ret # NoReturn =>
        /\ ret.out.xcache \in {"MISS", "HIT", "STALE", "ERROR-FALLBACK", ""}
        /\ ret.out.xcache = "MISS"
              => (ret.out.status = ret.upstream.status /\ ret.out.status \in Statuses)
        /\ ret.out.xcache = "HIT"
              => (ret.out.status = 200 /\ ret.upstream.status = NoStatus)
        /\ ret.out.xcache = "STALE"
              => (ret.out.status = 200 /\ ret.upstream.status = 429)
        /\ ret.out.xcache = "ERROR-FALLBACK" => ret.out.status = 200
        /\ ret.out.xcache = "" => ret.out.status = 500

\* C9's case: a STALE response with status 200 although the upstream
\* returned 429, served from an entry older than 120 s.
C9_Witness ==
    /\ ret.out.xcache = "STALE"
    /\ ret.out.status = 200
    /\ ret.upstream.status = 429
    /\ ret.out.body = cache.data
    /\ now - cache.timestamp >= 120000

\* C10: every upstream call in flight carries the 10-second cancellation
\* deadline, so that a call the upstream never answers is abandoned.
C10_EveryCallHasDeadline ==
    \A p \in Reqs :
        pc[p] = "fetch" => fetchOptions.signal = UPSTREAM_TIMEOUT_MS

\* C11: every execution of the handler calls the upstream at most once (no
\* retry after a 429, a non-2xx response or an exception), and not at all
\* when the request is answered as a cache HIT.
C11_AtMostOneAttempt ==
    /\ \A p \in Reqs :
          /\ fetches[p] <= 1
          /\ pc[p] \in {"fetch", "text"} => fetches[p] = 1
    /\ ret # NoReturn =>
          /\ ret.fetches <= 1
          /\ ret.out.xcache = "HIT" => ret.fetches = 0
          /\ (ret.upstream.status # NoStatus \/ ret.error # NoError) => ret.fetches = 1

\* C11's case: the upstream answered 429 to a request with nothing cached,
\* and the 429 was returned after that single call.
C11_Witness ==
    /\ ret.upstream.status = 429
    /\ ret.out.status = 429
    /\ ret.fetches = 1
    /\ cache.data = NullData

RequestKeys == { cacheKeyOf(validated[raw]) : raw \in RawQueries }

\* C13: under every interleaving of concurrent executions (same key or
\* different keys, suspended at the fetch and at the body read) the cache is
\* either empty or a triple (key, payload, timestamp) whose payload is the
\* body of a 2xx upstream response obtained for exactly that key: every
\* write stores the body an execution read from its own 2xx response under
\* that execution's own key, whatever the other executions are doing, and
\* two executions that missed for the same key each write when their body
\* arrives.
C13_CacheAlwaysValid ==
    /\ []( \/ cache = [ data |-> NullData, key |-> Undefined, timestamp |-> 0 ]
           \/ /\ cache.data \in Bodies
              /\ cache.key \in RequestKeys
              /\ cache.timestamp \in Instants
              /\ cache.timestamp <= now )
    /\ [][ /\ cache' # cache
              => \E p \in Reqs :
                    /\ Returns(p)
                    /\ Is2xx(response[p])
                    /\ ret'.query = query[p]
                    /\ ret'.upstream = [ status |-> response[p], body |-> cache'.data ]
                    /\ cache'.key = cacheKeyOf(query[p])
                    /\ cache'.timestamp = now
           /\ \A p \in Reqs :
                (Returns(p) /\ ~Throws(p) /\ pc[p] = "text" /\ Is2xx(response[p]))
                    => cache' = [ data      |-> ret'.upstream.body,
                                  key       |-> keyOf(p),
                                  timestamp |-> now ] ]_vars

\* C13's case: two executions missed for the same key and both hold a 2xx
\* response; the first has written its body, the second is about to
\* overwrite the entry for the same key.
C13_Witness ==
    /\ ret.out.xcache = "MISS"
    /\ ret.upstream.status = 200
    /\ cache.data = ret.upstream.body
    /\ cache.data # ""
    /\ cache.key = cacheKeyOf(ret.query)
    /\ \E p \in Reqs :
          /\ pc[p] = "text"
          /\ response[p] = 200
          /\ keyOf(p) = cache.key

\* C14: under any interleaving of requests, the body of every response
\* marked X-Cache: HIT, STALE or ERROR-FALLBACK is the payload of the cache
\* entry, and that entry's key is the responding request's own cache key; an
\* entry stored under another key is never returned, even when it is fresh.
\* (No step since the response was returned has touched the cache: a
\* handler step would have replaced ret.)
C14_ServedToOwnKeyOnly ==
    ret.out.xcache \in {"HIT", "STALE", "ERROR-FALLBACK"}
        => /\ cache.data # NullData
           /\ ret.out.body = cache.data
           /\ cache.key = cacheKeyOf(ret.query)

\* C14's case: an error fallback served the entry of the request's own key
\* while a request for another key, answered 429 by the upstream, was not
\* given that entry.
C14_Witness ==
    /\ ret.out.xcache = "ERROR-FALLBACK"
    /\ ret.out.body = cache.data
    /\ cache.key = cacheKeyOf(ret.query)
    /\ now - cache.timestamp < CACHE_TTL
    /\ \E p \in Reqs :
          /\ pc[p] = "text"
          /\ response[p] = 429
          /\ keyOf(p) # cache.key

(***************************************************************************)
(* The provider adapters (src/unnamed/part_000): fetchFinnhubQuote,        *)
(* fetchYahooQuote and fetchCoinGeckoMarkets.  Each awaits fetch and then  *)
(* resp.json(), inside one try block whose catch returns null (an empty    *)
(* array for fetchCoinGeckoMarkets).                                       *)
(***************************************************************************)
\* Largest number in the upstream bodies of the model.
MaxQuote == 2

Adapters == { "fetchFinnhubQuote", "fetchYahooQuote", "fetchCoinGeckoMarkets" }

Symbols == { "AAPL", "^GSPC" }

\* Numbers: arithmetic on fractions in lowest terms.
RECURSIVE gcd(_, _)
gcd(a, b) == IF b = 0 THEN a ELSE gcd(b, a % b)

abs(n) == IF n < 0 THEN -n ELSE n

Fraction(n, d) ==
    LET g == gcd(abs(n), abs(d))
        s == IF d < 0 THEN -1 ELSE 1
    IN  [ t |-> "number", num |-> s * (n \div g), den |-> s * (d \div g) ]

IsNumber(v) == v.t = "number"

\* a - b, a / b and a * 100 as JavaScript computes them on the values of the
\* model (rounding aside): undefined and NaN operands give NaN, 0 / 0 is
\* NaN and x / 0 is an infinity.
jsSub(a, b) ==
    IF IsNumber(a) /\ IsNumber(b)
    THEN Fraction(a.num * b.den - b.num * a.den, a.den * b.den)
    ELSE NaN

jsDiv(a, b) ==
    IF ~(IsNumber(a) /\ IsNumber(b)) THEN NaN
    ELSE IF b.num = 0
         THEN IF a.num = 0 THEN NaN
              ELSE IF a.num > 0 THEN Infinity ELSE MinusInfinity
         ELSE Fraction(a.num * b.den, a.den * b.num)

jsTimes100(a) ==
    IF IsNumber(a) THEN Fraction(a.num * 100, a.den)
    ELSE a

\* a || b: undefined, null, NaN and 0 are falsy.
jsTruthy(v) == (IsNumber(v) /\ v.num # 0) \/ v.t \in {"Infinity", "-Infinity"}

jsOr(a, b) == IF jsTruthy(a) THEN a ELSE b

\* v === 0
StrictZero(v) == IsNumber(v) /\ v.num = 0

\* closes.filter(v => v != null)
notNullish(v) == v.t \notin {"null", "undefined"}

\* A quote test that looks at the current price only.
finnhubQuote_PriceOnly(symbol, data) ==
    IF data.shape = "null" THEN NullResult
    ELSE IF StrictZero(data.c)
         THEN NullResult
         ELSE AdapterValue("object", symbol, data.c, data.dp, <<>>)

\* Lines 69-72 of fetchFinnhubQuote applied to the parsed body; reading a
\* field of null throws, which the catch of line 73 turns into null.
finnhubQuote(symbol, data) ==
    IF data.shape = "null" THEN NullResult
    ELSE IF StrictZero(data.c) /\ StrictZero(data.h) /\ StrictZero(data.l)
         THEN NullResult
         ELSE AdapterValue("object", symbol, data.c, data.dp, <<>>)

\* Line 101: prevClose.
prevCloseOf(data) ==
    jsOr(jsOr(data.chartPreviousClose, data.previousClose), data.regularMarketPrice)

\* Line 102: change.
changeOf(price, prevClose) == jsTimes100(jsDiv(jsSub(price, prevClose), prevClose))

\* Lines 95-107 of fetchYahooQuote applied to the parsed body; data.chart
\* .result[0] throws when data is null or chart or result is missing (caught
\* at line 108), and a missing result[0] or meta returns null at line 98.
yahooQuote(data) ==
    IF data.shape # "object" \/ data.depth \in {"none", "chart"} THEN NullResult
    ELSE IF data.depth # "meta" THEN NullResult
    ELSE LET price     == data.regularMarketPrice
             prevClose == prevCloseOf(data)
             change    == changeOf(price, prevClose)
             sparkline == IF data.hasCloses THEN SelectSeq(data.closes, notNullish)
                          ELSE <<>>
         IN  AdapterValue("object", "", price, change, sparkline)

\* Lines 128-129 of fetchCoinGeckoMarkets.
marketsOf(data) ==
    IF data.shape = "array" THEN ArrayResult(data.items) ELSE ArrayResult(<<>>)

\* What each adapter returns on !resp.ok and from its catch block.
failureValue(fn) ==
    IF fn = "fetchCoinGeckoMarkets" THEN ArrayResult(<<>>) ELSE NullResult

\* What each adapter makes of a parsed body.
parsedValue(fn, symbol, data) ==
    IF fn = "fetchFinnhubQuote" THEN finnhubQuote(symbol, data)
    ELSE IF fn = "fetchYahooQuote" THEN yahooQuote(data)
    ELSE marketsOf(data)

\* The bodies resp.json() resolves to.
QuoteNumbers == { Num(n) : n \in 0..MaxQuote }

JsonNullBody == [ NoJson EXCEPT !.shape = "null" ]

EmptyObject == [ NoJson EXCEPT !.shape = "object" ]

FinnhubBodies ==
    { JsonNullBody, EmptyObject }
    \cup { [ EmptyObject EXCEPT !.c = c, !.h = h, !.l = l, !.dp = dp ] :
             c \in QuoteNumbers, h \in QuoteNumbers, l \in QuoteNumbers,
             dp \in { Num(-1), Num(0) } }

YahooBodies ==
    { JsonNullBody, EmptyObject }
    \cup { [ EmptyObject EXCEPT !.depth = d ] : d \in {"chart", "result", "element"} }
    \cup { [ EmptyObject EXCEPT !.depth = "meta", !.regularMarketPrice = price,
                                !.chartPreviousClose = cpc, !.previousClose = pcl ] :
             price \in QuoteNumbers \cup {JsUndefined},
             cpc \in QuoteNumbers \cup {JsUndefined},
             pcl \in QuoteNumbers \cup {JsUndefined} }
    \cup { [ EmptyObject EXCEPT !.depth = "meta", !.regularMarketPrice = Num(1),
                                !.previousClose = Num(MaxQuote),
                                !.hasCloses = TRUE, !.closes = closes ] :
             closes \in { <<>>, << Num(1), JsNull, Num(MaxQuote) >> } }

MarketsBodies ==
    { JsonNullBody, EmptyObject,
      [ NoJson EXCEPT !.shape = "array" ],
      [ NoJson EXCEPT !.shape = "array", !.items = << Num(1), Num(MaxQuote) >> ] }

bodiesOf(fn) ==
    IF fn = "fetchFinnhubQuote" THEN FinnhubBodies
    ELSE IF fn = "fetchYahooQuote" THEN YahooBodies
    ELSE MarketsBodies

\* The call returns value to its caller.
AdapterReturn(outcome, status, data, value) ==
    /\ aret' = [ fn |-> acall.fn, symbol |-> acall.symbol, outcome |-> outcome,
                 status |-> status, signal |-> acall.signal, data |-> data,
                 value |-> value ]
    /\ acall' = NoCall

\* An adapter is called: up to the await of fetch, which carries
\* AbortSignal.timeout(UPSTREAM_TIMEOUT_MS).
AdapterStart(fn, symbol) ==
    /\ acall.pc = "idle"
    /\ acall' = [ fn |-> fn, symbol |-> symbol, pc |-> "fetch", status |-> NoStatus,
                  signal |-> UPSTREAM_TIMEOUT_MS ]
    /\ aret' = NoAdapterReturn
    /\ UNCHANGED << hvars, vvars >>

\* fetch rejects: a network error, or the abort signal fired.
AdapterFetchReject(why) ==
    /\ acall.pc = "fetch"
    /\ AdapterReturn(why, NoStatus, NoJson, failureValue(acall.fn))
    /\ UNCHANGED << hvars, vvars >>

\* fetch resolves: return on !resp.ok, else go on to resp.json().
AdapterFetchResolve(status) ==
    /\ acall.pc = "fetch"
    /\ IF IsOk(status)
       THEN /\ acall' = [ acall EXCEPT !.pc = "json", !.status = status ]
            /\ aret' = NoAdapterReturn
       ELSE AdapterReturn("not ok", status, NoJson, failureValue(acall.fn))
    /\ UNCHANGED << hvars, vvars >>

\* resp.json() rejects: the body is not JSON, or the abort signal fired.
AdapterJsonReject(why) ==
    /\ acall.pc = "json"
    /\ AdapterReturn(why, acall.status, NoJson, failureValue(acall.fn))
    /\ UNCHANGED << hvars, vvars >>

\* resp.json() resolves with the parsed body.
AdapterJsonResolve(data) ==
    /\ acall.pc = "json"
    /\ data \in bodiesOf(acall.fn)
    /\ AdapterReturn("parsed", acall.status, data, parsedValue(acall.fn, acall.symbol, data))
    /\ UNCHANGED << hvars, vvars >>

NextAdapters ==
    \/ \E fn \in Adapters, symbol \in Symbols : AdapterStart(fn, symbol)
    \/ \E why \in {"network error", "timeout"} : AdapterFetchReject(why)
    \/ \E status \in Statuses : AdapterFetchResolve(status)
    \/ \E why \in {"unparsable", "timeout"} : AdapterJsonReject(why)
    \/ \E data \in FinnhubBodies \cup YahooBodies \cup MarketsBodies :
          AdapterJsonResolve(data)

SpecAdapters == Init /\ [][NextAdapters]_vars

(***************************************************************************)
(* Claims about the provider adapters                                      *)
(***************************************************************************)
\* The body the latest adapter call parsed lacks a field its adapter reads.
LacksExpectedFields ==
    /\ aret.outcome = "parsed"
    /\ \/ /\ aret.fn = "fetchFinnhubQuote"
          /\ \/ aret.data.shape # "object"
             \/ \E v \in { aret.data.c, aret.data.h, aret.data.l, aret.data.dp } :
                   v.t # "number"
       \/ /\ aret.fn = "fetchYahooQuote"
          /\ \/ aret.data.shape # "object"
             \/ aret.data.depth # "meta"
             \/ aret.data.regularMarketPrice.t # "number"
       \/ /\ aret.fn = "fetchCoinGeckoMarkets"
          /\ aret.data.shape # "array"

\* C15: no adapter call ends with an exception; for every failure mode (fetch
\* rejected, timeout included; non-2xx status; unparsable body; body lacking
\* the expected fields) fetchFinnhubQuote and fetchYahooQuote return null and
\* fetchCoinGeckoMarkets returns an empty array; fetchCoinGeckoMarkets always
\* returns an array, an empty one also for a 2xx body that is not an array.
C15_FailuresCollapse ==
    aret.fn # "" =>
        /\ ~aret.value.thrown
        /\ aret.fn = "fetchCoinGeckoMarkets" => aret.value.kind = "array"
        /\ ( \/ aret.outcome \in {"network error", "timeout", "not ok", "unparsable"}
             \/ LacksExpectedFields )
           => IF aret.fn = "fetchCoinGeckoMarkets"
              THEN aret.value.kind = "array" /\ aret.value.list = <<>>
              ELSE aret.value.kind = "null"

\* The latest adapter call was fetchFinnhubQuote, the upstream answered 2xx
\* and the body parsed to a quote whose c, h, l and dp are numbers.
ParsedFinnhubQuote ==
    /\ aret.fn = "fetchFinnhubQuote"
    /\ aret.outcome = "parsed"
    /\ aret.status \in 200..299
    /\ aret.data.shape = "object"
    /\ \A v \in { aret.data.c, aret.data.h, aret.data.l, aret.data.dp } : v.t = "number"

\* C16: on a 2xx response with a parsable quote, fetchFinnhubQuote returns
\* null exactly when c, h and l are all zero, and otherwise returns
\* {symbol, price: c, changePercent: dp}: a quote with c = 0 and a non-zero
\* h or l is returned with price 0.
C16_FinnhubZeroQuote ==
    ParsedFinnhubQuote =>
        LET allZero == /\ aret.data.c.num = 0
                       /\ aret.data.h.num = 0
                       /\ aret.data.l.num = 0
        IN  /\ aret.value.kind = "null" <=> allZero
            /\ ~allZero =>
                  /\ aret.value.kind = "object"
                  /\ aret.value.symbol = aret.symbol
                  /\ aret.value.price = aret.data.c
                  /\ aret.value.change = aret.data.dp

\* C16's case: a quote with c = 0 and a non-zero low was returned as a
\* result with price 0.
C16_Witness ==
    /\ ParsedFinnhubQuote
    /\ aret.data.c.num = 0
    /\ aret.data.h.num = 0
    /\ aret.data.l.num # 0
    /\ aret.value.kind = "object"
    /\ aret.value.price.num = 0
    /\ aret.value.symbol = "AAPL"

\* The latest adapter call was fetchYahooQuote and the parsed body has a
\* meta record with a price.
ParsedYahooMeta ==
    /\ aret.fn = "fetchYahooQuote"
    /\ aret.outcome = "parsed"
    /\ aret.data.shape = "object"
    /\ aret.data.depth = "meta"
    /\ aret.data.regularMarketPrice.t = "number"

\* C17: for every chart response that has a meta record, fetchYahooQuote
\* returns a change that is a defined number, equal to
\* (price - previousClose) / previousClose * 100 with a denominator that is
\* neither missing nor zero, where previousClose is chartPreviousClose if
\* present, else previousClose if present, else price; when both optional
\* fields are absent the change is 0, for every price, 0 included.
C17_ChangeDefined ==
    ParsedYahooMeta =>
        LET price == aret.data.regularMarketPrice
            cpc   == aret.data.chartPreviousClose
            pcl   == aret.data.previousClose
            prev  == IF cpc.t = "number" THEN cpc
                     ELSE IF pcl.t = "number" THEN pcl
                     ELSE price
        IN  /\ aret.value.kind = "object"
            /\ aret.value.price = price
            /\ (cpc.t # "number" /\ pcl.t # "number")
                  => aret.value.change = [ t |-> "number", num |-> 0, den |-> 1 ]
            /\ aret.value.change.t = "number"
            /\ prev.num # 0
            /\ aret.value.change.num * prev.num
                  = (price.num - prev.num) * 100 * aret.value.change.den

\* C18: the cache is a single slot, and a 2xx upstream response read for key
\* B replaces whatever entry is held, an entry for another key A included.
\* While the slot holds another key, a request for A is not a HIT and calls
\* the upstream, however recent A's entry was; a 429 for A is not answered
\* from the cache but returned with the upstream's status and body, and an
\* exception gives the 500 error payload.
C18_SingleSlotOverwrite ==
    /\ [](DOMAIN cache = {"data", "key", "timestamp"})
    /\ [][ /\ \A p \in Reqs :
                ( /\ Returns(p)
                  /\ ~Throws(p)
                  /\ pc[p] = "text"
                  /\ Is2xx(response[p])
                  /\ cache.data # NullData
                  /\ cache.key # keyOf(p) )
                => ( /\ cache'.key = keyOf(p)
                     /\ cache'.data = ret'.upstream.body
                     /\ cache'.timestamp = now )
           /\ AnswersHit => cache.key = cacheKeyOf(ret'.query)
           /\ \A p \in Reqs :
                (pc[p] = "fetch" /\ pc'[p] # "fetch" /\ cache.key # keyOf(p))
                    => \/ pc'[p] = "text" /\ response'[p] \in Statuses
                       \/ Throws(p) /\ ret'.out = FixedErrorResponse
           /\ \A p \in Reqs :
                (Returns(p) /\ pc[p] = "text" /\ cache.key # keyOf(p))
                    => \/ /\ ~Throws(p)
                          /\ ret'.out = [ status |-> response[p],
                                          body   |-> ret'.upstream.body,
                                          xcache |-> "MISS" ]
                       \/ Throws(p) /\ ret'.out = FixedErrorResponse ]_vars

\* C18's case: within 120 s of the start, while the slot holds a fresh,
\* non-empty entry for another key, a request called the upstream, got 429
\* and was handed the upstream's 429.
C18_Witness ==
    /\ ret.upstream.status = 429
    /\ ret.out = [ status |-> 429, body |-> ret.upstream.body, xcache |-> "MISS" ]
    /\ ret.fetches = 1
    /\ cache.data \notin {NullData, ""}
    /\ cache.key # cacheKeyOf(ret.query)
    /\ 0 < now
    /\ now < CACHE_TTL
    /\ cache.timestamp = now

(***************************************************************************)
(* Claims about the validators and the cache key                           *)
(***************************************************************************)
\* The reference for validateCoinIds: one pass over the characters of the
\* parameter, closing a piece at every comma and at the end.
RefLower ==
    [ c \in { "A","B","C","D","E","F","G","H","I","J","K","L","M",
              "N","O","P","Q","R","S","T","U","V","W","X","Y","Z" } |->
        CASE c = "A" -> "a" [] c = "B" -> "b" [] c = "C" -> "c" [] c = "D" -> "d"
          [] c = "E" -> "e" [] c = "F" -> "f" [] c = "G" -> "g" [] c = "H" -> "h"
          [] c = "I" -> "i" [] c = "J" -> "j" [] c = "K" -> "k" [] c = "L" -> "l"
          [] c = "M" -> "m" [] c = "N" -> "n" [] c = "O" -> "o" [] c = "P" -> "p"
          [] c = "Q" -> "q" [] c = "R" -> "r" [] c = "S" -> "s" [] c = "T" -> "t"
          [] c = "U" -> "u" [] c = "V" -> "v" [] c = "W" -> "w" [] c = "X" -> "x"
          [] c = "Y" -> "y" [] c = "Z" -> "z" ]

\* A piece without its leading and trailing white space, in lower case.
RefNormalize(piece) ==
    LET inked == { i \in 1..Len(piece) : piece[i] \notin {" ", "\t"} }
    IN  IF inked = {} THEN <<>>
        ELSE LET first == CHOOSE i \in inked : \A j \in inked : i <= j
                 last  == CHOOSE i \in inked : \A j \in inked : j <= i
             IN  [ k \in 1..(last - first + 1) |->
                     LET c == piece[first + k - 1]
                     IN  IF c \in DOMAIN RefLower THEN RefLower[c] ELSE c ]

RefValid(id) ==
    /\ Len(id) \in 1..50
    /\ \A i \in 1..Len(id) : id[i] \in IdentifierAlphabet

RECURSIVE RefScan(_, _, _, _, _)
RefScan(s, i, piece, kept, acc) ==
    IF i > Len(s) + 1 THEN acc
    ELSE IF i = Len(s) + 1 \/ s[i] = ","
         THEN LET id == RefNormalize(piece)
              IN  IF RefValid(id) /\ kept < 20
                  THEN RefScan(s, i + 1, <<>>, kept + 1,
                               IF kept = 0 THEN id ELSE acc \o <<",">> \o id)
                  ELSE RefScan(s, i + 1, <<>>, kept, acc)
         ELSE RefScan(s, i + 1, Append(piece, s[i]), kept, acc)

RefCoinIds(param) ==
    LET fixed == << "b","i","t","c","o","i","n",",","e","t","h","e","r","e","u","m",
                    ",","s","o","l","a","n","a" >>
        kept  == IF param.present THEN RefScan(param.value, 1, <<>>, 0, <<>>) ELSE <<>>
    IN  IF kept = <<>> THEN fixed ELSE kept

\* C19: for every ids parameter validateCoinIds equals the reference: split
\* on ',', trim and lowercase each piece, drop the pieces that do not match
\* ^[a-z0-9-]+$ or are longer than 50 characters, keep the first 20 survivors
\* in their order, duplicates included, and join them with ','; the cap is
\* applied after the filter; an absent parameter and a parameter of which no
\* piece survives give 'bitcoin,ethereum,solana'.
C19_MatchesReference ==
    vout # NoOutput => vout.query.ids = RefCoinIds(vin.ids)

\* C19's case: of more than 40 pieces, every other one invalid, the first 20
\* valid ones were kept, duplicates and all, the first of them lowercased.
C19_Witness ==
    /\ vout # NoOutput
    /\ vin.ids.present
    /\ Cardinality(CommasOf(vin.ids.value)) + 1 > 40
    /\ vin.ids.value[1] = "&"
    /\ vin.ids.value[3] = "A"
    /\ vout.query.ids = <<"a">> \o repeat(<<",", "a">>, 19)

\* Queries every validated query is compared with: each combination of a
\* few ids parameters, currencies and flags.
KeyProbes ==
    { [ ids |-> i, vs_currencies |-> c, include_24hr_change |-> b ] :
        i \in { Absent, Param(<<"a">>), Param(<<"a", ",", "a">>), Param(<<"-">>),
                Param(<<"b","t","c">>) },
        c \in { Absent, Param(<<"E","U","R">>), Param(<<"b","t","c">>) },
        b \in { Absent, Param(FalseStr) } }

\* Their validated values and cache keys.
KeyProbeOutputs ==
    [ r \in KeyProbes |->
        [ query |-> validateQuery(r), cacheKey |-> cacheKeyOf(validateQuery(r)) ] ]

\* The key of ?ids=bitcoin,ethereum with no other parameter.
ExampleKey ==
    cacheKeyOf(validateQuery(
        [ ids |-> Param(<< "b","i","t","c","o","i","n",",",
                           "e","t","h","e","r","e","u","m" >>),
          vs_currencies |-> Absent, include_24hr_change |-> Absent ]))

\* C20: the cache key is ids ':' currency ':' flag over the validated
\* values, the flag being 'true' or 'false' and 'true' when the parameter is
\* absent; the key has exactly two ':' and so is read back in one way only;
\* and two requests have equal keys if and only if their validated ids,
\* currency and flag are all equal.
C20_KeyInjective ==
    vout # NoOutput =>
        LET q      == vout.query
            key    == vout.cacheKey
            colons == { i \in 1..Len(key) : key[i] = ":" }
        IN  /\ ExampleKey = << "b","i","t","c","o","i","n",",",
                               "e","t","h","e","r","e","u","m",
                               ":","u","s","d",":","t","r","u","e" >>
            /\ q.include24hrChange \in { <<"t","r","u","e">>, <<"f","a","l","s","e">> }
            /\ ~vin.include_24hr_change.present => q.include24hrChange = <<"t","r","u","e">>
            /\ Cardinality(colons) = 2
            /\ \E i \in colons, j \in colons :
                  /\ i < j
                  /\ SubSeq(key, 1, i - 1) = q.ids
                  /\ SubSeq(key, i + 1, j - 1) = q.vsCurrencies
                  /\ SubSeq(key, j + 1, Len(key)) = q.include24hrChange
            /\ \A r \in KeyProbes :
                  (key = KeyProbeOutputs[r].cacheKey) <=> (q = KeyProbeOutputs[r].query)

\* C20's case: a query that differs from the default one in the flag only
\* got a different key.
C20_Witness ==
    /\ vout # NoOutput
    /\ vout.query.ids = DEFAULT_COIN_IDS
    /\ vout.query.vsCurrencies = <<"u","s","d">>
    /\ vout.query.include24hrChange = <<"f","a","l","s","e">>
    /\ vout.cacheKey # KeyProbeOutputs[NoRaw].cacheKey
    /\ KeyProbeOutputs[NoRaw].query.ids = DEFAULT_COIN_IDS
    /\ KeyProbeOutputs[NoRaw].query.vsCurrencies = <<"u","s","d">>

=============================================================================
